---- MODULE Spec2Model ----
(***************************************************************************)
(* State-machine model of the feedback service in src/main.py: the         *)
(* request model VoteRequest, the handlers submit_feedback, get_stats,     *)
(* reset_votes and test_database, and the "feedback" collection they act   *)
(* on.  Each handler is a coroutine (or plain function) without an await,  *)
(* so it runs to completion once started: one action per handler.          *)
(*                                                                         *)
(* Python values are tagged records [t, n, s]:                             *)
(*   t = "int"      n is the integer                                       *)
(*   t = "float"    n is the value in tenths (37 is 3.7)                   *)
(*   t = "str"      s is the string, a sequence of code points             *)
(*   t = "datetime" n is the microseconds past 2024-01-01T00:00 UTC        *)
(*   t = "none"     Python's None                                          *)
(*   t = "missing"  the key is absent from the document / request body     *)
(***************************************************************************)
EXTENDS Integers, Sequences, FiniteSets, TLC

\* ------------------------------------------------------------------ bounds

\* The largest number of documents the collection holds in the model.
MaxStore == 3

\* The largest number of collections the database lists (the handler keeps 10).
MaxCollections == 11

\* ------------------------------------------------------------ Python values

PyInt(k) == [t |-> "int", n |-> k, s |-> <<>>]

PyFloat(tenths) == [t |-> "float", n |-> tenths, s |-> <<>>]

PyStr(chars) == [t |-> "str", n |-> 0, s |-> chars]

PyDatetime(us) == [t |-> "datetime", n |-> us, s |-> <<>>]

PyNone == [t |-> "none", n |-> 0, s |-> <<>>]

Missing == [t |-> "missing", n |-> 0, s |-> <<>>]

\* Code points of the characters the model's strings are made of.
Digit(d) == 48 + d

IsDigit(c) == 48 <= c /\ c <= 57

\* "abc", "3", "6", "2023", "None"
StrAbc == <<97, 98, 99>>

Str3 == <<51>>

Str6 == <<54>>

Str2023 == <<50, 48, 50, 51>>

StrNone == <<78, 111, 110, 101>>

\* a < b for Python strings: code point by code point, a proper prefix first.
RECURSIVE StrLessFrom(_, _, _)
StrLessFrom(a, b, i) ==
    IF i > Len(b) THEN FALSE
    ELSE IF i > Len(a) THEN TRUE
    ELSE IF a[i] # b[i] THEN a[i] < b[i]
    ELSE StrLessFrom(a, b, i + 1)

StrLess(a, b) == StrLessFrom(a, b, 1)

StrLeq(a, b) == a = b \/ StrLess(a, b)

\* The decimal digits of n, zero-padded to width.
RECURSIVE Pow10(_)
Pow10(k) == IF k = 0 THEN 1 ELSE 10 * Pow10(k - 1)

ZeroPad(n, width) ==
    [i \in 1..width |-> Digit((n \div Pow10(width - i)) % 10)]

\* The value of a string of decimal digits.
RECURSIVE DigitsValue(_)
DigitsValue(chars) ==
    IF chars = <<>> THEN 0
    ELSE 10 * DigitsValue(SubSeq(chars, 1, Len(chars) - 1))
         + (chars[Len(chars)] - 48)

IsDigits(chars) == chars # <<>> /\ \A i \in 1..Len(chars) : IsDigit(chars[i])

\* int(x): [ok, n]; ok = FALSE is the ValueError / TypeError int() raises.
\* An int is itself, a float is truncated toward zero, a string is parsed as
\* an optionally signed run of decimal digits, None is a TypeError.
IntOf(x) ==
    CASE x.t = "int" -> [ok |-> TRUE, n |-> x.n]
      [] x.t = "float" ->
            [ok |-> TRUE,
             n |-> IF x.n >= 0 THEN x.n \div 10 ELSE -((-x.n) \div 10)]
      [] x.t = "str" ->
            IF IsDigits(x.s) THEN [ok |-> TRUE, n |-> DigitsValue(x.s)]
            ELSE IF Len(x.s) > 1 /\ x.s[1] \in {43, 45} /\ IsDigits(Tail(x.s))
                 THEN [ok |-> TRUE,
                       n |-> IF x.s[1] = 45 THEN -DigitsValue(Tail(x.s))
                             ELSE DigitsValue(Tail(x.s))]
                 ELSE [ok |-> FALSE, n |-> 0]
      [] OTHER -> [ok |-> FALSE, n |-> 0]

\* datetime.isoformat() of a timezone-aware UTC datetime:
\* YYYY-MM-DDTHH:MM:SS[.ffffff]+00:00, the fraction only when it is not zero.
IsoDatePrefix ==
    <<50, 48, 50, 52, 45, 48, 49, 45, 48, 49, 84, 48, 48, 58, 48, 48, 58>>

UtcOffset == <<43, 48, 48, 58, 48, 48>>

isoformat(dt) ==
    LET sec == dt.n \div 1000000
        us == dt.n % 1000000
    IN  IsoDatePrefix \o ZeroPad(sec, 2)
        \o (IF us = 0 THEN <<>> ELSE <<46>> \o ZeroPad(us, 6))
        \o UtcOffset

\* str(x) for the values a created_at field holds.
StrOf(x) ==
    CASE x.t = "str" -> x.s
      [] x.t = "datetime" -> isoformat(x)
      [] OTHER -> StrNone

\* The key str(i) of a score in the counts dictionary.
ScoreKey(i) == <<"1", "2", "3", "4", "5">>[i]

ScoreKeys == {ScoreKey(i) : i \in 1..5}

\* --------------------------------------------------------------- the state

VARIABLES
    db,     \* the imported database handle: "None" or "handle"
    env,    \* which of DATABASE_URL, DATABASE_NAME the process environment sets
    store,  \* the documents of the "feedback" collection, in insertion order
    resp,   \* the response to the latest request
    calls,  \* the gateway calls the latest request made, in order
    clock   \* the latest reading of the UTC clock, in microseconds

vars == <<db, env, store, resp, calls, clock>>

\* The database module's handle: set when both environment variables are set.
DbOf(e) == IF e.url /\ e.name THEN "handle" ELSE "None"

\* What datetime.now(timezone.utc) returns, in microseconds past the minute:
\* two instants, one of them with a zero microsecond field.  The clock does
\* not run backwards; two readings can be equal.
NowValues == {PyDatetime(0), PyDatetime(500000)}

Readings(last) == {now \in NowValues : now.n >= last}

\* Documents other writers left in the collection.
LegacyDoc(score, created) ==
    [score |-> score, created_at |-> created, updated_at |-> created]

LegacyStores ==
    { <<>>,
      << LegacyDoc(Missing, PyDatetime(0)) >>,
      << LegacyDoc(PyInt(6), PyDatetime(500000)) >>,
      << LegacyDoc(PyStr(StrAbc), PyDatetime(0)) >>,
      << LegacyDoc(PyStr(Str3), PyStr(Str2023)) >>,
      << LegacyDoc(PyFloat(37), Missing) >>,
      << LegacyDoc(PyInt(2), PyDatetime(500000)),
         LegacyDoc(PyInt(6), PyDatetime(0)) >> }

\* The score values a request body carries.
ScoreInputs ==
    {PyInt(k) : k \in 0..6}
    \cup {PyStr(Str3), PyStr(Str6), PyStr(StrAbc),
          PyFloat(30), PyFloat(37), PyNone, Missing}

\* ------------------------------------------------------------- the gateway

\* create_document(collection, data): one more document in the collection.
create_document(coll, data) == Append(coll, data)

\* get_documents(collection): every document, in an order the store chooses.
get_documents(coll) ==
    {[i \in 1..Len(coll) |-> coll[p[i]]] : p \in Permutations(1..Len(coll))}

\* A plausible slip: delete_one in place of delete_many.
delete_many_One(coll) == IF coll = <<>> THEN <<>> ELSE Tail(coll)

\* db["feedback"].delete_many({}): no document is left.
delete_many(coll) == <<>>

\* ---------------------------------------------------------- request model

\* A plausible slip: the upper limit of the field is left out.
ScoreField_NoUpperLimit(k) == 1 <= k

\* Field(..., ge=1, le=5)
ScoreField(k) == 1 <= k /\ k <= 5

\* VoteRequest: score: int = Field(..., ge=1, le=5).  The set of outcomes
\* [ok, n] of validating a raw body value: the field is required, an int is
\* taken as it is, a string of an integer and a float with no fraction are
\* converted, a float with a fraction is truncated (pydantic 1) or refused
\* (pydantic 2); then 1 <= n <= 5.
VoteRequest(raw) ==
    LET Refused == [ok |-> FALSE, n |-> 0]
        Ranged(k) == IF ScoreField(k) THEN [ok |-> TRUE, n |-> k] ELSE Refused
    IN  CASE raw.t = "int" -> {Ranged(raw.n)}
          [] raw.t = "str" ->
                {IF IntOf(raw).ok THEN Ranged(IntOf(raw).n) ELSE Refused}
          [] raw.t = "float" ->
                IF raw.n % 10 = 0 THEN {Ranged(IntOf(raw).n)}
                ELSE {Ranged(IntOf(raw).n), Refused}
          [] OTHER -> {Refused}

\* ---------------------------------------------------------------- responses

NotConfigured(op) ==
    [op |-> op, status |-> 500, body |-> [detail |-> "Database not configured"]]

ServerError(op) ==
    [op |-> op, status |-> 500, body |-> [detail |-> "Internal Server Error"]]

ValidationError(op) ==
    [op |-> op, status |-> 422, body |-> [detail |-> "validation error"]]

\* ---------------------------------------------------------- submit_feedback

\* A plausible slip: updated_at is taken from a second reading of the clock.
VoteData_SecondReading(score, now) ==
    [score |-> PyInt(score), created_at |-> now,
     updated_at |-> PyDatetime(now.n + 1)]

\* data = {"score": vote.score, "created_at": now, "updated_at": now}
VoteData(score, now) ==
    [score |-> PyInt(score), created_at |-> now, updated_at |-> now]

SubmitOk ==
    [op |-> "submit", status |-> 200,
     body |-> [ok |-> TRUE, message |-> "Thanks for your feedback!"]]

\* A plausible slip: the handler does not test the handle.
SubmitUnconfigured_Untested == FALSE

\* The guard of submit_feedback: the handle is absent.
SubmitUnconfigured == db = "None"

submit_feedback(raw, now) ==
    \E vote \in VoteRequest(raw) :
        IF ~vote.ok
        THEN /\ resp' = ValidationError("submit")
             /\ calls' = <<>>
             /\ UNCHANGED <<db, env, store, clock>>
        ELSE IF SubmitUnconfigured
        THEN /\ resp' = NotConfigured("submit")
             /\ calls' = <<>>
             /\ UNCHANGED <<db, env, store, clock>>
        ELSE /\ Len(store) < MaxStore
             /\ clock' = now.n
             /\ store' = create_document(store, VoteData(vote.n, now))
             /\ calls' = <<"create_document">>
             /\ resp' = SubmitOk
             /\ UNCHANGED <<db, env>>

\* ---------------------------------------------------------------- get_stats

\* counts = {str(i): 0 for i in range(1, 6)}; total_score = 0; timeline = []
AggregateStart ==
    [raised |-> FALSE,
     counts |-> [k \in ScoreKeys |-> 0],
     total_score |-> 0,
     timeline |-> <<>>]

\* The timestamp string of a document: isoformat() of a datetime, str() of
\* anything else (None when the key is absent).
TimestampOf(d) ==
    IF d.created_at.t = "datetime" THEN isoformat(d.created_at)
    ELSE StrOf(d.created_at)

\* The range test of the loop body.
InRange(s) == 1 <= s /\ s <= 5

\* A plausible slip: the score is added to the total before the range test.
AggregateStep_SumBeforeTest(acc, d) ==
    LET raw == IF d.score.t = "missing" THEN PyInt(0) ELSE d.score
        s == IntOf(raw)
    IN  IF acc.raised THEN acc
        ELSE IF ~s.ok THEN [acc EXCEPT !.raised = TRUE]
        ELSE IF InRange(s.n)
        THEN [acc EXCEPT
                !.counts[ScoreKey(s.n)] = @ + 1,
                !.total_score = @ + s.n,
                !.timeline = Append(@, [timestamp |-> TimestampOf(d),
                                        score |-> s.n])]
        ELSE [acc EXCEPT !.total_score = @ + s.n]

\* One pass of the loop body over document d.
AggregateStep(acc, d) ==
    LET raw == IF d.score.t = "missing" THEN PyInt(0) ELSE d.score
        s == IntOf(raw)
    IN  IF acc.raised THEN acc
        ELSE IF ~s.ok THEN [acc EXCEPT !.raised = TRUE]
        ELSE IF InRange(s.n)
        THEN [acc EXCEPT
                !.counts[ScoreKey(s.n)] = @ + 1,
                !.total_score = @ + s.n,
                !.timeline = Append(@, [timestamp |-> TimestampOf(d),
                                        score |-> s.n])]
        ELSE acc

RECURSIVE Aggregate(_)
Aggregate(docs) ==
    IF docs = <<>> THEN AggregateStart
    ELSE AggregateStep(Aggregate(SubSeq(docs, 1, Len(docs) - 1)),
                       docs[Len(docs)])

\* sum(counts.values())
RECURSIVE SumCounts(_, _)
SumCounts(counts, keys) ==
    IF keys = {} THEN 0
    ELSE LET k == CHOOSE x \in keys : TRUE
         IN  counts[k] + SumCounts(counts, keys \ {k})

TotalVotes(counts) == SumCounts(counts, ScoreKeys)

\* A plausible slip: the entry is put at the end whatever its timestamp.
InsertByTimestamp_AtEnd(e, s) == Append(s, e)

\* Where sorted() puts entry e among the already sorted entries s: after
\* every entry whose key is not greater (the sort is stable).
InsertByTimestamp(e, s) ==
    LET k == Cardinality({i \in 1..Len(s) : StrLeq(s[i].timestamp, e.timestamp)})
    IN  SubSeq(s, 1, k) \o <<e>> \o SubSeq(s, k + 1, Len(s))

\* A plausible slip: the timeline is returned as it was built.
SortedTimeline_Unsorted(tl) == tl

\* sorted(timeline, key=lambda x: x["timestamp"])
RECURSIVE SortedTimeline(_)
SortedTimeline(tl) ==
    IF tl = <<>> THEN <<>>
    ELSE InsertByTimestamp(tl[Len(tl)],
                           SortedTimeline(SubSeq(tl, 1, Len(tl) - 1)))

StatsResponse(docs) ==
    LET acc == Aggregate(docs)
    IN  IF acc.raised THEN ServerError("stats")
        ELSE [op |-> "stats", status |-> 200,
              body |-> [counts |-> acc.counts,
                        total_votes |-> TotalVotes(acc.counts),
                        total_score |-> acc.total_score,
                        timeline |-> SortedTimeline(acc.timeline)]]

get_stats ==
    /\ IF db = "None"
       THEN /\ resp' = NotConfigured("stats")
            /\ calls' = <<>>
       ELSE /\ \E docs \in get_documents(store) : resp' = StatsResponse(docs)
            /\ calls' = <<"get_documents">>
    /\ UNCHANGED <<db, env, store, clock>>

\* -------------------------------------------------------------- reset_votes

ResetOk == [op |-> "reset", status |-> 200, body |-> [ok |-> TRUE]]

reset_votes ==
    IF db = "None"
    THEN /\ resp' = NotConfigured("reset")
         /\ calls' = <<>>
         /\ UNCHANGED <<db, env, store, clock>>
    ELSE /\ store' = delete_many(store)
         /\ calls' = <<"delete_many">>
         /\ resp' = ResetOk
         /\ UNCHANGED <<db, env, clock>>

\* ------------------------------------------------------------ test_database

\* collections[:10] and str(e)[:50]
CollectionsKept == 10

MessageKept == 50

\* What _db.list_collection_names() does: the names it returns, or the
\* message of the exception it throws.
Listings ==
    {[throws |-> FALSE, names |-> [i \in 1..n |-> i], message |-> <<>>] :
        n \in {0, CollectionsKept, MaxCollections}}
    \cup {[throws |-> TRUE, names |-> <<>>, message |-> [i \in 1..len |-> 101]] :
            len \in {7, 60}}

\* A plausible slip: the slice is left out.
Take_All(x, k) == x

\* x[:k]
Take(x, k) == SubSeq(x, 1, IF Len(x) < k THEN Len(x) ELSE k)

DiagnosticBody(listing) ==
    LET start == [backend |-> "Running",
                  database |-> [text |-> "Not Available", detail |-> <<>>],
                  connection_status |-> "Not Connected",
                  collections |-> <<>>]
        found ==
            IF db = "None"
            THEN [start EXCEPT
                    !.database = [text |-> "Available but not initialized",
                                  detail |-> <<>>]]
            ELSE IF listing.throws
            THEN [start EXCEPT
                    !.connection_status = "Connected",
                    !.database = [text |-> "Connected but Error: ",
                                  detail |-> Take(listing.message, MessageKept)]]
            ELSE [start EXCEPT
                    !.connection_status = "Connected",
                    !.collections = Take(listing.names, CollectionsKept),
                    !.database = [text |-> "Connected & Working",
                                  detail |-> <<>>]]
    IN  [backend |-> found.backend,
         database |-> found.database,
         database_url |-> IF env.url THEN "Set" ELSE "Not Set",
         database_name |-> IF env.name THEN "Set" ELSE "Not Set",
         connection_status |-> found.connection_status,
         collections |-> found.collections]

test_database(listing) ==
    /\ resp' = [op |-> "test", status |-> 200, body |-> DiagnosticBody(listing)]
    /\ calls' = IF db = "None" THEN <<>> ELSE <<"list_collection_names">>
    /\ UNCHANGED <<db, env, store, clock>>

\* -------------------------------------------------------- the specification

NoResponse == [op |-> "none", status |-> 0, body |-> [detail |-> "none"]]

Environments == [url : BOOLEAN, name : BOOLEAN]

InitWith(stores) ==
    /\ env \in Environments
    /\ db = DbOf(env)
    /\ store \in stores
    /\ resp = NoResponse
    /\ calls = <<>>
    /\ clock = 0

\* The collection holds whatever earlier writers left in it.
Init == InitWith(LegacyStores)

\* The collection starts empty.
InitEmpty == InitWith({<<>>})

Submit ==
    \E raw \in ScoreInputs, now \in Readings(clock) : submit_feedback(raw, now)

Stats == get_stats

Reset == reset_votes

Diagnostics == \E listing \in Listings : test_database(listing)

Next == Submit \/ Stats \/ Reset \/ Diagnostics

Spec == Init /\ [][Next]_vars

SpecEmpty == InitEmpty /\ [][Next]_vars

\* ------------------------------------------------------ shared vocabulary

StatsOk(r) == r.op = "stats" /\ r.status = 200

\* The integer a stored score field stands for, 0 when it stands for none
\* (the key is absent or int() refuses the value).
ScoreValue(d) ==
    IF d.score.t # "missing" /\ IntOf(d.score).ok THEN IntOf(d.score).n ELSE 0

\* The documents of a collection whose score stands for i.
Scoring(coll, i) == {j \in 1..Len(coll) : ScoreValue(coll[j]) = i}

\* The number of documents of a collection whose score is in 1..5.
ValidCount(coll) == Cardinality({j \in 1..Len(coll) : InRange(ScoreValue(coll[j]))})

RECURSIVE SumScores(_)
SumScores(tl) ==
    IF tl = <<>> THEN 0 ELSE tl[1].score + SumScores(Tail(tl))

\* counts {1:0, 2:0, 3:0, 4:0, 5:0}, total_votes 0, total_score 0, timeline []
ZeroStats ==
    [op |-> "stats", status |-> 200,
     body |-> [counts |-> [k \in ScoreKeys |-> 0],
               total_votes |-> 0, total_score |-> 0, timeline |-> <<>>]]

\* An accepted submission of score s: one more document, whose score is s.
Accepted(s) ==
    /\ resp' = SubmitOk
    /\ Len(store') = Len(store) + 1
    /\ store'[Len(store')].score = PyInt(s)

\* The stats a query answers right after the step exceed, by one vote of
\* score s, the stats a query answers right before it.
OneMoreVote(s) ==
    \A before \in get_documents(store), after \in get_documents(store') :
        LET a == StatsResponse(before)
            b == StatsResponse(after)
        IN  /\ StatsOk(a) /\ StatsOk(b)
            /\ b.body.total_votes = a.body.total_votes + 1
            /\ b.body.total_score = a.body.total_score + s
            /\ \A i \in 1..5 :
                  b.body.counts[ScoreKey(i)] =
                      a.body.counts[ScoreKey(i)] + (IF i = s THEN 1 ELSE 0)

\* ------------------------------------------------------------------ claims

\* C1: for every score s in 1..5 and every content of the collection, the
\* stats queried after an accepted submission of s have counts[str(s)] and
\* total_votes one higher and total_score s higher than the stats queried
\* before it, and every other count unchanged.
C1_SubmitAddsOneVote ==
    [][\A s \in 1..5 : Accepted(s) => OneMoreVote(s)]_vars

\* C1, the scenario: from an empty collection, after submitting 3, 5, 3 the
\* stats are counts {1:0, 2:0, 3:2, 4:0, 5:1}, total_votes 3, total_score 11.
C1_Scenario353 ==
    ( /\ resp.op = "stats"
      /\ Len(store) = 3
      /\ store[1].score = PyInt(3)
      /\ store[2].score = PyInt(5)
      /\ store[3].score = PyInt(3) )
    => /\ StatsOk(resp)
       /\ resp.body.counts =
            [k \in ScoreKeys |-> IF k = "3" THEN 2 ELSE IF k = "5" THEN 1 ELSE 0]
       /\ resp.body.total_votes = 3
       /\ resp.body.total_score = 11
       /\ Len(resp.body.timeline) = 3

\* The scenario's stats response is reached.
C1_ScenarioReached ==
    /\ StatsOk(resp)
    /\ Len(store) = 3
    /\ store[1].score = PyInt(3)
    /\ store[2].score = PyInt(5)
    /\ store[3].score = PyInt(3)

\* A raw score that is an integer in 1..5.
IntegerInRange(raw) == raw.t = "int" /\ InRange(raw.n)

\* A step of the submit operation on the raw score.
SubmitOf(raw) == \E now \in Readings(clock) : submit_feedback(raw, now)

Rejected == resp' = ValidationError("submit") /\ store' = store /\ calls' = <<>>

StandsForNoVote(raw) ==
    \/ raw.t = "int" /\ ~InRange(raw.n)
    \/ raw.t = "str" /\ (~IntOf(raw).ok \/ ~InRange(IntOf(raw).n))
    \/ raw.t = "float" /\ raw.n % 10 = 0 /\ ~InRange(raw.n \div 10)
    \/ raw.t \in {"none", "missing"}

\* A raw score that is not an integer and stands for exactly the integer k.
StandsFor(raw, k) ==
    \/ raw.t = "str" /\ IntOf(raw).ok /\ IntOf(raw).n = k
    \/ raw.t = "float" /\ raw.n = 10 * k

NoVoteInputs == {raw \in ScoreInputs : StandsForNoVote(raw)}

ConvertedInputs == {raw \in ScoreInputs : \E k \in 1..5 : StandsFor(raw, k)}

C3_MalformedSkipped ==
    (resp.op = "stats" /\ db = "handle") =>
        /\ StatsOk(resp)
        /\ \A i \in 1..5 :
              resp.body.counts[ScoreKey(i)] = Cardinality(Scoring(store, i))
        /\ resp.body.total_votes = ValidCount(store)
        /\ Len(resp.body.timeline) = ValidCount(store)

\* C4: in every stats response the timeline is sorted ascending by the
\* timestamp string: each entry's timestamp is at most the next entry's.
C4_TimelineSorted ==
    StatsOk(resp) =>
        \A i \in 1..(Len(resp.body.timeline) - 1) :
            StrLeq(resp.body.timeline[i].timestamp,
                   resp.body.timeline[i + 1].timestamp)

\* A stats response with two entries of different timestamps, for a
\* collection that holds the later document first.
C4_ReorderedReached ==
    /\ StatsOk(resp)
    /\ Len(store) >= 2
    /\ Len(resp.body.timeline) >= 2
    /\ StrLess(TimestampOf(store[2]), TimestampOf(store[1]))
    /\ StrLess(resp.body.timeline[1].timestamp, resp.body.timeline[2].timestamp)

\* C5: a successful reset leaves no document in the collection, and a stats
\* query that follows it with no submission in between (directly, or after
\* other queries) answers the zero state.
C5_ResetThenZeroStats ==
    [][ /\ resp' = ResetOk => store' = <<>>
        /\ (resp = ResetOk /\ resp'.op = "stats") => resp' = ZeroStats
        /\ (store = <<>> /\ db = "handle" /\ resp'.op = "stats")
              => resp' = ZeroStats ]_vars

\* The zero state has been answered for a collection that votes had filled
\* (the clock has advanced, so a vote was accepted) and a reset emptied.
C5_ZeroAfterResetReached ==
    /\ resp = ZeroStats
    /\ store = <<>>
    /\ clock > 0

SameUpToTies(r, q) ==
    /\ q.status = r.status
    /\ StatsOk(r) =>
          /\ q.body.counts = r.body.counts
          /\ q.body.total_votes = r.body.total_votes
          /\ q.body.total_score = r.body.total_score
          /\ Len(q.body.timeline) = Len(r.body.timeline)
          /\ \A i \in 1..Len(r.body.timeline) :
                /\ q.body.timeline[i].timestamp = r.body.timeline[i].timestamp
                /\ Cardinality({j \in 1..Len(q.body.timeline) :
                                    q.body.timeline[j] = r.body.timeline[i]})
                   = Cardinality({j \in 1..Len(r.body.timeline) :
                                    r.body.timeline[j] = r.body.timeline[i]})

\* No two counted documents of the collection with different scores have the
\* same timestamp string.
NoTiedScores(coll) ==
    \A i, j \in 1..Len(coll) :
        ( /\ InRange(ScoreValue(coll[i])) /\ InRange(ScoreValue(coll[j]))
          /\ TimestampOf(coll[i]) = TimestampOf(coll[j]) )
        => ScoreValue(coll[i]) = ScoreValue(coll[j])

\* C7 as stated: the stats response is the same for every order in which
\* the store returns the documents, the timeline sequence included.
C7_OrderIndependent ==
    (resp.op = "stats" /\ db = "handle") =>
        \A docs \in get_documents(store) : StatsResponse(docs) = resp

\* C7 as amended: for every order in which the store returns the documents
\* the counts, total_votes, total_score, the timestamps of the timeline and
\* the entries it holds are the same; the timeline sequence is the same
\* unless two counted documents with different scores have equal timestamp
\* strings, which appear in the order the store returned them.
C7_OrderIndependentUpToTies ==
    (resp.op = "stats" /\ db = "handle") =>
        \A docs \in get_documents(store) :
            /\ SameUpToTies(resp, StatsResponse(docs))
            /\ NoTiedScores(store) => StatsResponse(docs) = resp

\* A stats response for three documents, two of them tied with different
\* scores.
C7_TieReached ==
    /\ StatsOk(resp)
    /\ Len(resp.body.timeline) = 3
    /\ ~NoTiedScores(store)

\* C8: the diagnostics operation always answers with a diagnostic object,
\* reports at most 10 collection names, and leaves the collection as it was.
C8_DiagnosticsReadOnly ==
    [][Diagnostics =>
          /\ resp'.op = "test" /\ resp'.status = 200
          /\ Len(resp'.body.collections) <= 10
          /\ Len(resp'.body.database.detail) <= 50
          /\ store' = store]_vars

\* Diagnostics have reported the first 10 names of a listing, with documents
\* in the collection.
C8_TruncatedReached ==
    /\ resp.op = "test"
    /\ Len(resp.body.collections) = 10
    /\ store # <<>>

\* A document as submit_feedback writes it.
WellFormed(d) ==
    /\ d.score.t = "int" /\ InRange(d.score.n)
    /\ d.created_at.t = "datetime"
    /\ d.updated_at = d.created_at

\* C9: from an empty collection, every document has an integer score in 1..5
\* and updated_at equal to created_at; a step changes the collection only by
\* adding one document at the end or by removing all of them, and stats and
\* diagnostics never change it.
C9_StoreDiscipline ==
    [][ /\ \A i \in 1..Len(store') : WellFormed(store'[i])
        /\ \/ store' = store
           \/ Len(store') = Len(store) + 1 /\ SubSeq(store', 1, Len(store)) = store
           \/ store' = <<>>
        /\ resp'.op \in {"stats", "test"} => store' = store ]_vars

\* Three submitted documents are in the collection after a stats query.
C9_FilledReached ==
    /\ Len(store) = 3
    /\ resp.op = "stats"
    /\ \A i \in 1..3 : WellFormed(store[i])

\* C10: every stats response is consistent with one reading of the
\* collection: total_votes is the sum of the counts, the number of timeline
\* entries and the number of documents with a score in 1..5; each count is
\* the number of timeline entries of that score and of such documents; and
\* total_score is the sum of the timeline's scores.
C10_StatsConsistent ==
    StatsOk(resp) =>
        /\ resp.body.total_votes = SumCounts(resp.body.counts, ScoreKeys)
        /\ resp.body.total_votes = Len(resp.body.timeline)
        /\ resp.body.total_votes = ValidCount(store)
        /\ resp.body.total_score = SumScores(resp.body.timeline)
        /\ \A i \in 1..5 :
              /\ resp.body.counts[ScoreKey(i)] = Cardinality(Scoring(store, i))
              /\ resp.body.counts[ScoreKey(i)] =
                    Cardinality({j \in 1..Len(resp.body.timeline) :
                                    resp.body.timeline[j].score = i})

\* A stats response for a collection that holds counted and uncounted
\* documents.
C10_MixedReached ==
    /\ StatsOk(resp)
    /\ Len(store) = 3
    /\ ValidCount(store) = 2

====
